---- MODULE Spec2Model ----
(***************************************************************************)
(* Model of libs/jsapi/jsbindings.cpp: the embind table that exposes the   *)
(* Filament engine to JavaScript, and the filaweb::Engine wrapper struct   *)
(* the table is built on.                                                  *)
(*                                                                         *)
(* Renderer.render, View.setScene, View.setCamera and Scene.addEntity      *)
(* (lines 170-184) are bound to the engine's member functions directly,    *)
(* with no code of the layer in between; they are not part of the model.   *)
(*                                                                         *)
(* Three parties appear in the state:                                      *)
(*   - the caller (the scripting host): the handles it has been handed,    *)
(*     the operation it issued last and what that operation returned;      *)
(*   - the binding layer: the heap of filaweb::Engine wrappers, each       *)
(*     holding one filament::Engine* (the field `engine`, line 119);       *)
(*   - the wrapped engine: its live engines, the objects each owns, the    *)
(*     entity manager, the builder objects, and the last call it observed. *)
(* Every exported operation is one action.                                 *)
(***************************************************************************)
EXTENDS Integers, Sequences, FiniteSets

\* ------------------------------------------------------------- bounds
MaxWrappers == 2    \* filaweb::Engine objects ever allocated (they are never freed)
MaxEngines  == 2    \* addresses the engine library can place a filament::Engine at
MaxObjects  == 1    \* addresses per object kind
MaxEntities == 1    \* entity ids of the EntityManager
MaxBuilders == 1    \* builder objects per builder class
MaxValue    == 1    \* largest int handed to a builder setter (counts, boxes)
MaxCalls    == 4    \* operations issued in one run on engines and objects
MaxChain    == 5    \* operations issued in one run on builders

\* ------------------------------------------------- program constants
NULL   == 0         \* nullptr
OPENGL == 1         \* filament::Engine::Backend::OPENGL

EngineIds == 1..MaxEngines
ObjectIds == 1..MaxObjects
EntityIds == 1..MaxEntities
Values    == 0..MaxValue
Bools     == {0, 1}                      \* a C++ bool as marshalled

\* The object kinds filaweb::Engine creates (lines 71-109).
CreateKinds == {"SwapChain", "Renderer", "View", "Scene", "Camera"}
\* The object kinds the builders' build() creates inside the engine.
BuiltKinds  == {"VertexBuffer", "IndexBuffer"}
Kinds       == CreateKinds \cup BuiltKinds

VARIABLES
    wrappers,     \* binding: heap of filaweb::Engine; wrappers[w] is w->engine
    engines,      \* engine: the live filament::Engine addresses
    objects,      \* engine: objects[k][h] = owning engine of object h, or NULL
    entities,     \* engine: live entities of utils::EntityManager
    renderables,  \* engine: <<engine, entity>> pairs that carry a renderable
    rbuilders,    \* engine: the RenderableManager::Builder objects
    vbuilders,    \* engine: the VertexBuffer::Builder objects
    ibuilders,    \* engine: number of IndexBuffer::Builder objects
    held,         \* caller: the handles <<kind, h>> some operation returned
    destroyed,    \* caller: <<w, h>>: wrapper w was passed to Engine.destroy holding h
    rmade,        \* caller: per RenderBuilder, the settings it made, last write
    vmade,        \* caller: per VertexBuilder, the settings it made, last write
    lastOp,       \* caller: the exported operation issued last, and its outcome
    lastCall,     \* engine: the call observed last
    nIssued,      \* caller: operations issued
    nObserved,    \* engine: calls observed
    halted        \* the program trapped on a null dereference

vars == <<wrappers, engines, objects, entities, renderables, rbuilders, vbuilders,
          ibuilders, held, destroyed, rmade, vmade, lastOp, lastCall, nIssued, nObserved, halted>>

engineVars  == <<engines, objects, entities, renderables>>
builderVars == <<rbuilders, vbuilders, ibuilders, rmade, vmade>>

\* Before the first operation: nothing issued, nothing observed.
NoOp   == [seq |-> 0, name |-> "", self |-> NULL, args |-> <<>>, returns |-> FALSE,
           result |-> NULL, completed |-> TRUE]
NoCall == [seq |-> 0, method |-> "", target |-> NULL, args |-> <<>>, sees |-> <<>>,
           returns |-> FALSE, ret |-> NULL]

Init ==
    /\ wrappers = <<>>
    /\ engines = {}
    /\ objects = [k \in Kinds |-> [h \in ObjectIds |-> NULL]]
    /\ entities = {}
    /\ renderables = {}
    /\ rbuilders = <<>>
    /\ vbuilders = <<>>
    /\ ibuilders = 0
    /\ held = {}
    /\ destroyed = {}
    /\ rmade = <<>>
    /\ vmade = <<>>
    /\ lastOp = NoOp
    /\ lastCall = NoCall
    /\ nIssued = 0
    /\ nObserved = 0
    /\ halted = FALSE

\* The host can issue one more operation.
CanIssue == ~halted

\* ------------------------------------------------ caller-side book-keeping
\* The host issues operation `name` on object `self` with `args`; it returns
\* `result`.
Returns(name, self, args, result) ==
    /\ nIssued' = nIssued + 1
    /\ lastOp' = [seq |-> nIssued + 1, name |-> name, self |-> self, args |-> args,
                  returns |-> TRUE, result |-> result, completed |-> TRUE]

\* The host issues operation `name`; it returns nothing (void).
ReturnsVoid(name, self, args) ==
    /\ nIssued' = nIssued + 1
    /\ lastOp' = [seq |-> nIssued + 1, name |-> name, self |-> self, args |-> args,
                  returns |-> FALSE, result |-> NULL, completed |-> TRUE]

\* The host issues operation `name`; the program traps inside it.
Traps(name, self, args) ==
    /\ nIssued' = nIssued + 1
    /\ lastOp' = [seq |-> nIssued + 1, name |-> name, self |-> self, args |-> args,
                  returns |-> FALSE, result |-> NULL, completed |-> FALSE]

\* The handles of kind k the host can pass: nullptr, or one it was handed.
Passable(k) == {NULL} \cup {h \in ObjectIds : <<k, h>> \in held}

\* --------------------------------------------------- the forwarding call
\* The engine observes `method` on object `target` with `args`, sees the
\* settings `sees` of the builder it is called on, and answers `ret`.
Call(method, target, args, sees, returns, ret) ==
    /\ nObserved' = nObserved + 1
    /\ lastCall' = [seq |-> nIssued + 1, method |-> method, target |-> target,
                    args |-> args, sees |-> sees, returns |-> returns, ret |-> ret]

Observes_dropped(method, target, args, returns, ret) ==
    UNCHANGED <<lastCall, nObserved>>

\* The one call an exported operation makes into the engine library.
Observes(method, target, args, returns, ret) ==
    Call(method, target, args, <<>>, returns, ret)

\* The one call a builder's build() makes into the engine library.
ObservesBuild(method, target, args, sees, ret) ==
    Call(method, target, args, sees, TRUE, ret)

\* =====================================================================
\* The engine library (filament::Engine, its Builders, utils::EntityManager)
\* =====================================================================

\* filament::Engine::create(backend): a new engine, or nullptr. Engine addresses
\* are interchangeable (nothing keeps the address of a destroyed engine), so the
\* allocator is taken to hand out the lowest free one.
FEngine_createResults ==
    {NULL} \cup {i \in EngineIds \ engines : \A j \in EngineIds \ engines : i <= j}

\* filament::Engine::destroy(Engine**): the objects engine h owned die with it.
FEngine_destroyObjects(h) ==
    [k \in Kinds |-> [x \in ObjectIds |-> IF objects[k][x] = h THEN NULL ELSE objects[k][x]]]

\* engine->createX(...): a new object of kind k at a free address, or nullptr.
FEngine_createObjectResults(k) == {NULL} \cup {x \in ObjectIds : objects[k][x] = NULL}

\* The engine's objects after engine h has created object x of kind k.
FEngine_createObject(h, k, x) ==
    IF x = NULL THEN objects ELSE [objects EXCEPT ![k][x] = h]

\* engine->destroy(x) on engine h: frees x when it is an object of h, else nothing.
FEngine_destroyObject(h, k, x) ==
    IF x # NULL /\ objects[k][x] = h THEN [objects EXCEPT ![k][x] = NULL] ELSE objects

\* RenderableManager::Builder(count): the defaults of a new builder.
RenderBuilder_new(n) ==
    [count |-> n, boundingBox |-> 0, culling |-> 1, receiveShadows |-> 1, castShadows |-> 0]

\* VertexBuffer::Builder(): the defaults of a new builder.
VertexBuilder_new == [vertexCount |-> 0, bufferCount |-> 0]

\* A builder setter: writes its own setting ...
Builder_set(builder, setting, v) == [builder EXCEPT ![setting] = v]

\* ... and returns *this.
Builder_setReturn(b) == b

\* The settings a RenderableManager::Builder hands to build().
RenderBuilder_settings(builder) ==
    <<builder.count, builder.boundingBox, builder.culling, builder.receiveShadows,
      builder.castShadows>>

\* The settings a VertexBuffer::Builder hands to build().
VertexBuilder_settings(builder) == <<builder.vertexCount, builder.bufferCount>>

\* =====================================================================
\* The binding layer: struct filaweb::Engine (lines 63-120)
\* =====================================================================

\* The arguments Engine::create passes to filament::Engine::create.
Engine_create_args == <<OPENGL>>

\* new Engine { handle }: one more wrapper on the heap, holding handle. No
\* operation of the layer deletes a wrapper, so the heap only grows.
Engine_new(heap, handle) == Append(heap, handle)

Engine_new_result_singleton(heap) == 1

\* The address new Engine { ... } returns: a wrapper that did not exist before.
Engine_new_result(heap) == Len(heap) + 1

\* static Engine* create()
Engine_create ==
    /\ CanIssue
    /\ Len(wrappers) < MaxWrappers
    /\ \E ret \in FEngine_createResults :
         /\ engines' = IF ret = NULL THEN engines ELSE engines \cup {ret}
         /\ wrappers' = Engine_new(wrappers, ret)
         /\ Returns("Engine.create", NULL, <<>>, Engine_new_result(wrappers))
         /\ Observes("Engine::create", NULL, Engine_create_args, TRUE, ret)
         /\ held' = held \cup {<<"Engine", Engine_new_result(wrappers)>>}
    /\ UNCHANGED <<objects, entities, renderables, builderVars, destroyed, halted>>

Engine_destroy_slot_first(w) == 1

\* &engine->engine: the slot handed to filament::Engine::destroy(Engine**),
\* which destroys the engine the slot holds (if any) and clears the slot.
Engine_destroy_slot(w) == w

\* static void destroy(Engine* engine)
Engine_destroy(w) ==
    /\ CanIssue
    /\ <<"Engine", w>> \in held
    /\ LET slot == Engine_destroy_slot(w)
           h    == wrappers[slot]
       IN /\ engines' = engines \ {h}
          /\ objects' = IF h = NULL THEN objects ELSE FEngine_destroyObjects(h)
          /\ renderables' = {r \in renderables : r[1] # h}
          /\ wrappers' = [wrappers EXCEPT ![slot] = NULL]
          /\ destroyed' = destroyed \cup {<<w, wrappers[w]>>}
          /\ ReturnsVoid("Engine.destroy", NULL, <<w>>)
          /\ Observes("Engine::destroy", NULL, <<slot>>, FALSE, NULL)
    /\ UNCHANGED <<entities, builderVars, held, halted>>

Receiver_first(w) == wrappers[1]

\* this->engine: the engine a member function of wrapper w calls into.
Receiver(w) == wrappers[w]

\* Whether a call through handle h lands in an engine.
Valid(h) == h # NULL /\ h \in engines

\* A call through a null or dead engine handle, of an operation that returns a
\* handle of kind k: the program traps, or the call reads whatever lies behind
\* the handle and returns it.
InvalidCreate(name, w, method, args, k) ==
    /\ UNCHANGED <<wrappers, destroyed, engineVars, builderVars>>
    /\ \/ /\ Traps(name, w, <<>>)
          /\ Observes(method, Receiver(w), args, TRUE, NULL)
          /\ halted' = TRUE
          /\ UNCHANGED held
       \/ \E g \in {NULL} \cup ObjectIds :
            /\ Returns(name, w, <<>>, g)
            /\ Observes(method, Receiver(w), args, TRUE, g)
            /\ held' = IF g = NULL THEN held ELSE held \cup {<<k, g>>}
            /\ UNCHANGED halted

\* A call through a null or dead engine handle, of a void operation: the
\* program traps, or the call does nothing.
InvalidVoid(name, self, opargs, method, target, args, sees, returns) ==
    /\ Call(method, target, args, sees, returns, NULL)
    /\ UNCHANGED <<wrappers, destroyed, engineVars, builderVars, held>>
    /\ \/ /\ Traps(name, self, opargs)
          /\ halted' = TRUE
       \/ /\ ReturnsVoid(name, self, opargs)
          /\ UNCHANGED halted

\* filament::X* createX() { return engine->createX(args); }
MemberCreate(name, w, method, args, k) ==
    /\ CanIssue
    /\ <<"Engine", w>> \in held
    /\ IF Valid(Receiver(w))
       THEN \E ret \in FEngine_createObjectResults(k) :
              /\ objects' = FEngine_createObject(Receiver(w), k, ret)
              /\ Returns(name, w, <<>>, ret)
              /\ Observes(method, Receiver(w), args, TRUE, ret)
              /\ held' = IF ret = NULL THEN held ELSE held \cup {<<k, ret>>}
              /\ UNCHANGED <<wrappers, destroyed, engines, entities, renderables,
                             builderVars, halted>>
       ELSE InvalidCreate(name, w, method, args, k)

\* void destroyX(filament::X* x) { engine->destroy(x); }
MemberDestroy(name, w, x, method, k) ==
    /\ CanIssue
    /\ <<"Engine", w>> \in held
    /\ IF Valid(Receiver(w))
       THEN /\ objects' = FEngine_destroyObject(Receiver(w), k, x)
            /\ ReturnsVoid(name, w, <<x>>)
            /\ Observes(method, Receiver(w), <<x>>, FALSE, NULL)
            /\ UNCHANGED <<wrappers, destroyed, engines, entities, renderables, builderVars, held,
                           halted>>
       ELSE InvalidVoid(name, w, <<x>>, method, Receiver(w), <<x>>, <<>>, FALSE)

createSwapChain_window_canvas == <<1>>

\* The native window createSwapChain passes on.
createSwapChain_window == <<NULL>>

createSwapChain(w) ==
    MemberCreate("Engine.createSwapChain", w, "Engine::createSwapChain",
                 createSwapChain_window, "SwapChain")

destroySwapChain(w, x) ==
    MemberDestroy("Engine.destroySwapChain", w, x, "Engine::destroy(SwapChain)", "SwapChain")

createRenderer(w) ==
    MemberCreate("Engine.createRenderer", w, "Engine::createRenderer", <<>>, "Renderer")

destroyRenderer(w, x) ==
    MemberDestroy("Engine.destroyRenderer", w, x, "Engine::destroy(Renderer)", "Renderer")

createView(w) ==
    MemberCreate("Engine.createView", w, "Engine::createView", <<>>, "View")

destroyView(w, x) ==
    MemberDestroy("Engine.destroyView", w, x, "Engine::destroy(View)", "View")

createScene(w) ==
    MemberCreate("Engine.createScene", w, "Engine::createScene", <<>>, "Scene")

destroyScene(w, x) ==
    MemberDestroy("Engine.destroyScene", w, x, "Engine::destroy(Scene)", "Scene")

createCamera(w) ==
    MemberCreate("Engine.createCamera", w, "Engine::createCamera", <<>>, "Camera")

destroyCamera(w, x) ==
    MemberDestroy("Engine.destroyCamera", w, x, "Engine::destroy(Camera)", "Camera")

destroyVertexBuffer(w, x) ==
    MemberDestroy("Engine.destroyVertexBuffer", w, x, "Engine::destroy(VertexBuffer)",
                  "VertexBuffer")

\* void destroyEntity(utils::Entity entity) { engine->destroy(entity); }
destroyEntity(w, e) ==
    /\ CanIssue
    /\ <<"Engine", w>> \in held
    /\ <<"Entity", e>> \in held
    /\ IF Valid(Receiver(w))
       THEN /\ renderables' = renderables \ {<<Receiver(w), e>>}
            /\ ReturnsVoid("Engine.destroyEntity", w, <<e>>)
            /\ Observes("Engine::destroy(Entity)", Receiver(w), <<e>>, FALSE, NULL)
            /\ UNCHANGED <<wrappers, destroyed, engines, objects, entities, builderVars,
                           held, halted>>
       ELSE InvalidVoid("Engine.destroyEntity", w, <<e>>, "Engine::destroy(Entity)",
                        Receiver(w), <<e>>, <<>>, FALSE)

\* =====================================================================
\* The binding layer: utils::EntityManager (lines 262-271)
\* =====================================================================

\* The address of the EntityManager singleton.
TheManager == 1

\* EntityManager.get: [] () { return &utils::EntityManager::get(); }
EntityManager_get ==
    /\ CanIssue
    /\ Returns("EntityManager.get", NULL, <<>>, TheManager)
    /\ Observes("EntityManager::get", NULL, <<>>, TRUE, TheManager)
    /\ held' = held \cup {<<"EntityManager", TheManager>>}
    /\ UNCHANGED <<wrappers, destroyed, engineVars, builderVars, halted>>

\* EntityManager.create: select_overload<utils::Entity()>(&EntityManager::create)
EntityManager_create(m) ==
    /\ CanIssue
    /\ <<"EntityManager", m>> \in held
    /\ \E e \in EntityIds \ entities :
         /\ entities' = entities \cup {e}
         /\ Returns("EntityManager.create", m, <<>>, e)
         /\ Observes("EntityManager::create", m, <<>>, TRUE, e)
         /\ held' = held \cup {<<"Entity", e>>}
    /\ UNCHANGED <<wrappers, destroyed, engines, objects, renderables, builderVars, halted>>

\* EntityManager.destroy: select_overload<void(utils::Entity)>(&EntityManager::destroy)
EntityManager_destroy(m, e) ==
    /\ CanIssue
    /\ <<"EntityManager", m>> \in held
    /\ <<"Entity", e>> \in held
    /\ entities' = entities \ {e}
    /\ ReturnsVoid("EntityManager.destroy", m, <<e>>)
    /\ Observes("EntityManager::destroy", m, <<e>>, FALSE, NULL)
    /\ UNCHANGED <<wrappers, destroyed, engines, objects, renderables, builderVars, held, halted>>

\* =====================================================================
\* The binding layer: the builders (lines 194-258)
\* =====================================================================

\* The settings <<setting, value, made more than once>> the host has made on a
\* builder, with `setting` made (again) as v.
Made(made, setting, v) ==
    {s \in made : s[1] # setting} \cup {<<setting, v, \E s \in made : s[1] = setting>>}

\* The exported name of a builder setter, and the engine method of that name.
SetterName ==
    [boundingBox    |-> "RenderableManager$Builder.boundingBox",
     culling        |-> "RenderableManager$Builder.culling",
     receiveShadows |-> "RenderableManager$Builder.receiveShadows",
     castShadows    |-> "RenderableManager$Builder.castShadows",
     vertexCount    |-> "VertexBuffer$Builder.vertexCount",
     bufferCount    |-> "VertexBuffer$Builder.bufferCount"]

SetterMethod ==
    [boundingBox    |-> "RenderableManager::Builder::boundingBox",
     culling        |-> "RenderableManager::Builder::culling",
     receiveShadows |-> "RenderableManager::Builder::receiveShadows",
     castShadows    |-> "RenderableManager::Builder::castShadows",
     vertexCount    |-> "VertexBuffer::Builder::vertexCount",
     bufferCount    |-> "VertexBuffer::Builder::bufferCount"]

\* RenderableManager.Builder: [] (int n) { return RenderBuilder(n); }
RenderableManager_Builder(n) ==
    /\ CanIssue
    /\ Len(rbuilders) < MaxBuilders
    /\ rbuilders' = Append(rbuilders, RenderBuilder_new(n))
    /\ rmade' = Append(rmade, {})
    /\ Returns("RenderableManager.Builder", NULL, <<n>>, Len(rbuilders) + 1)
    /\ Observes("RenderableManager::Builder::Builder", NULL, <<n>>, TRUE, Len(rbuilders) + 1)
    /\ held' = held \cup {<<"RenderBuilder", Len(rbuilders) + 1>>}
    /\ UNCHANGED <<wrappers, destroyed, engineVars, vbuilders, ibuilders, vmade, halted>>

\* [] (RenderBuilder* builder, T v) { return &builder->setting(v); }, exported
\* under the name of setting `name`.
RenderBuilder_setter(name, b, setting, v) ==
    /\ CanIssue
    /\ <<"RenderBuilder", b>> \in held
    /\ rbuilders' = [rbuilders EXCEPT ![b] = Builder_set(@, setting, v)]
    /\ rmade' = [rmade EXCEPT ![b] = Made(@, name, v)]
    /\ Returns(SetterName[name], b, <<v>>, Builder_setReturn(b))
    /\ Observes(SetterMethod[setting], b, <<v>>, TRUE, Builder_setReturn(b))
    /\ UNCHANGED <<wrappers, destroyed, engineVars, vbuilders, ibuilders, vmade, held, halted>>

RenderBuilder_culling_setting_castShadows == "castShadows"

\* The builder method the exported "culling" forwards to (line 208).
RenderBuilder_culling_setting == "culling"

RenderBuilder_boundingBox(b, box) ==
    RenderBuilder_setter("boundingBox", b, "boundingBox", box)

RenderBuilder_culling(b, enable) ==
    RenderBuilder_setter("culling", b, RenderBuilder_culling_setting, enable)

RenderBuilder_receiveShadows(b, enable) ==
    RenderBuilder_setter("receiveShadows", b, "receiveShadows", enable)

RenderBuilder_castShadows(b, enable) ==
    RenderBuilder_setter("castShadows", b, "castShadows", enable)

\* [] (RenderBuilder* builder, filaweb::Engine* engine, utils::Entity entity) {
\*     builder->build(*engine->engine, entity); }
\* The engine's build answers a Result (0 is SUCCESS); the binding returns
\* nothing.
RenderBuilder_build(b, w, e) ==
    /\ CanIssue
    /\ <<"RenderBuilder", b>> \in held
    /\ <<"Engine", w>> \in held
    /\ <<"Entity", e>> \in held
    /\ IF Valid(Receiver(w))
       THEN /\ renderables' = renderables \cup {<<Receiver(w), e>>}
            /\ ReturnsVoid("RenderableManager$Builder.build", b, <<w, e>>)
            /\ ObservesBuild("RenderableManager::Builder::build", b, <<Receiver(w), e>>,
                             RenderBuilder_settings(rbuilders[b]), 0)
            /\ UNCHANGED <<wrappers, destroyed, engines, objects, entities, builderVars,
                           held, halted>>
       ELSE InvalidVoid("RenderableManager$Builder.build", b, <<w, e>>,
                        "RenderableManager::Builder::build", b, <<Receiver(w), e>>,
                        RenderBuilder_settings(rbuilders[b]), TRUE)

\* VertexBuffer.Builder: [] () { return VertexBuilder(); }
VertexBuffer_Builder ==
    /\ CanIssue
    /\ Len(vbuilders) < MaxBuilders
    /\ vbuilders' = Append(vbuilders, VertexBuilder_new)
    /\ vmade' = Append(vmade, {})
    /\ Returns("VertexBuffer.Builder", NULL, <<>>, Len(vbuilders) + 1)
    /\ Observes("VertexBuffer::Builder::Builder", NULL, <<>>, TRUE, Len(vbuilders) + 1)
    /\ held' = held \cup {<<"VertexBuilder", Len(vbuilders) + 1>>}
    /\ UNCHANGED <<wrappers, destroyed, engineVars, rbuilders, ibuilders, rmade, halted>>

\* [] (VertexBuilder* builder, int count) { return &builder->setting(count); }
VertexBuilder_setter(name, b, setting, v) ==
    /\ CanIssue
    /\ <<"VertexBuilder", b>> \in held
    /\ vbuilders' = [vbuilders EXCEPT ![b] = Builder_set(@, setting, v)]
    /\ vmade' = [vmade EXCEPT ![b] = Made(@, name, v)]
    /\ Returns(SetterName[name], b, <<v>>, Builder_setReturn(b))
    /\ Observes(SetterMethod[setting], b, <<v>>, TRUE, Builder_setReturn(b))
    /\ UNCHANGED <<wrappers, destroyed, engineVars, rbuilders, ibuilders, rmade, held, halted>>

VertexBuilder_vertexCount(b, count) ==
    VertexBuilder_setter("vertexCount", b, "vertexCount", count)

VertexBuilder_bufferCount(b, count) ==
    VertexBuilder_setter("bufferCount", b, "bufferCount", count)

\* A builder's build(*engine->engine) that creates an object of kind k in the
\* engine: the binding returns nothing, whatever the engine returns.
BufferBuild(name, b, w, method, settings, k) ==
    /\ CanIssue
    /\ <<"Engine", w>> \in held
    /\ IF Valid(Receiver(w))
       THEN \E ret \in FEngine_createObjectResults(k) :
              /\ objects' = FEngine_createObject(Receiver(w), k, ret)
              /\ ReturnsVoid(name, b, <<w>>)
              /\ ObservesBuild(method, b, <<Receiver(w)>>, settings, ret)
              /\ UNCHANGED <<wrappers, destroyed, engines, entities, renderables, builderVars, held,
                             halted>>
       ELSE InvalidVoid(name, b, <<w>>, method, b, <<Receiver(w)>>, settings, TRUE)

\* [] (VertexBuilder* builder, filaweb::Engine* engine) { builder->build(*engine->engine); }
VertexBuilder_build(b, w) ==
    /\ <<"VertexBuilder", b>> \in held
    /\ BufferBuild("VertexBuffer$Builder.build", b, w, "VertexBuffer::Builder::build",
                   VertexBuilder_settings(vbuilders[b]), "VertexBuffer")

\* IndexBuffer.Builder: [] () { return IndexBuilder(); }
IndexBuffer_Builder ==
    /\ CanIssue
    /\ ibuilders < MaxBuilders
    /\ ibuilders' = ibuilders + 1
    /\ Returns("IndexBuffer.Builder", NULL, <<>>, ibuilders + 1)
    /\ Observes("IndexBuffer::Builder::Builder", NULL, <<>>, TRUE, ibuilders + 1)
    /\ held' = held \cup {<<"IndexBuilder", ibuilders + 1>>}
    /\ UNCHANGED <<wrappers, destroyed, engineVars, rbuilders, vbuilders, rmade, vmade, halted>>

\* [] (IndexBuilder* builder, filaweb::Engine* engine) { builder->build(*engine->engine); }
IndexBuilder_build(b, w) ==
    /\ <<"IndexBuilder", b>> \in held
    /\ BufferBuild("IndexBuffer$Builder.build", b, w, "IndexBuffer::Builder::build",
                   <<>>, "IndexBuffer")

\* =====================================================================
\* The specification
\* =====================================================================
Wrappers == 1..MaxWrappers
Builders == 1..MaxBuilders

\* Runs of at most MaxCalls operations on engines and the objects they own.
Next ==
    \/ nIssued < MaxCalls /\ Engine_create
    \/ nIssued < MaxCalls /\ \E w \in Wrappers : Engine_destroy(w)
    \/ nIssued < MaxCalls /\ \E w \in Wrappers : createSwapChain(w)
    \/ nIssued < MaxCalls /\ \E w \in Wrappers : \E x \in Passable("SwapChain") :
         destroySwapChain(w, x)
    \/ nIssued < MaxCalls /\ \E w \in Wrappers : createRenderer(w)
    \/ nIssued < MaxCalls /\ \E w \in Wrappers : \E x \in Passable("Renderer") :
         destroyRenderer(w, x)
    \/ nIssued < MaxCalls /\ \E w \in Wrappers : createView(w)
    \/ nIssued < MaxCalls /\ \E w \in Wrappers : \E x \in Passable("View") :
         destroyView(w, x)
    \/ nIssued < MaxCalls /\ \E w \in Wrappers : createScene(w)
    \/ nIssued < MaxCalls /\ \E w \in Wrappers : \E x \in Passable("Scene") :
         destroyScene(w, x)
    \/ nIssued < MaxCalls /\ \E w \in Wrappers : createCamera(w)
    \/ nIssued < MaxCalls /\ \E w \in Wrappers : \E x \in Passable("Camera") :
         destroyCamera(w, x)
    \/ nIssued < MaxCalls /\ \E w \in Wrappers : \E e \in EntityIds : destroyEntity(w, e)
    \/ nIssued < MaxCalls /\ \E w \in Wrappers : \E x \in Passable("VertexBuffer") :
         destroyVertexBuffer(w, x)
    \/ nIssued < MaxCalls /\ EntityManager_get
    \/ nIssued < MaxCalls /\ EntityManager_create(TheManager)
    \/ nIssued < MaxCalls /\ \E e \in EntityIds : EntityManager_destroy(TheManager, e)
    \/ nIssued < MaxCalls /\ VertexBuffer_Builder
    \/ nIssued < MaxCalls /\ \E b \in Builders : \E w \in Wrappers :
         VertexBuilder_build(b, w)
    \/ nIssued < MaxCalls /\ IndexBuffer_Builder
    \/ nIssued < MaxCalls /\ \E b \in Builders : \E w \in Wrappers :
         IndexBuilder_build(b, w)

Spec == Init /\ [][Next]_vars

\* Runs of at most MaxChain operations on builders, with what build() needs.
NextBuilder ==
    \/ nIssued < MaxChain /\ Engine_create
    \/ nIssued < MaxChain /\ EntityManager_get
    \/ nIssued < MaxChain /\ EntityManager_create(TheManager)
    \/ nIssued < MaxChain /\ \E n \in Values : RenderableManager_Builder(n)
    \/ nIssued < MaxChain /\ \E b \in Builders : \E box \in Values :
         RenderBuilder_boundingBox(b, box)
    \/ nIssued < MaxChain /\ \E b \in Builders : \E enable \in Bools :
         RenderBuilder_culling(b, enable)
    \/ nIssued < MaxChain /\ \E b \in Builders : \E enable \in Bools :
         RenderBuilder_receiveShadows(b, enable)
    \/ nIssued < MaxChain /\ \E b \in Builders : \E enable \in Bools :
         RenderBuilder_castShadows(b, enable)
    \/ nIssued < MaxChain /\ \E b \in Builders : \E w \in Wrappers : \E e \in EntityIds :
         RenderBuilder_build(b, w, e)
    \/ nIssued < MaxChain /\ VertexBuffer_Builder
    \/ nIssued < MaxChain /\ \E b \in Builders : \E count \in Values :
         VertexBuilder_vertexCount(b, count)
    \/ nIssued < MaxChain /\ \E b \in Builders : \E count \in Values :
         VertexBuilder_bufferCount(b, count)
    \/ nIssued < MaxChain /\ \E b \in Builders : \E w \in Wrappers :
         VertexBuilder_build(b, w)

SpecBuilder == Init /\ [][NextBuilder]_vars

\* Runs in which every exported operation can occur.
NextAll == Next \/ NextBuilder

SpecAll == Init /\ [][NextAll]_vars

\* =====================================================================
\* Properties
\* =====================================================================

\* The exported operations of struct filaweb::Engine that create an object,
\* with the kind they create, and those that destroy one.
CreateOps ==
    [SwapChain |-> "Engine.createSwapChain", Renderer |-> "Engine.createRenderer",
     View |-> "Engine.createView", Scene |-> "Engine.createScene",
     Camera |-> "Engine.createCamera"]

DestroyOps ==
    [SwapChain |-> "Engine.destroySwapChain", Renderer |-> "Engine.destroyRenderer",
     View |-> "Engine.destroyView", Scene |-> "Engine.destroyScene",
     Camera |-> "Engine.destroyCamera", VertexBuffer |-> "Engine.destroyVertexBuffer"]

CreateNames  == {CreateOps[k] : k \in DOMAIN CreateOps}
DestroyNames == {DestroyOps[k] : k \in DOMAIN DestroyOps}
MemberNames  == CreateNames \cup DestroyNames \cup {"Engine.destroyEntity"}
BuildNames   == {"RenderableManager$Builder.build", "VertexBuffer$Builder.build",
                 "IndexBuffer$Builder.build"}
SetterNames  == {SetterName[n] : n \in DOMAIN SetterName}

\* The engine method each exported operation is named after.
Underlying(name) ==
    CASE name = "Engine.create"              -> "Engine::create"
      [] name = "Engine.destroy"             -> "Engine::destroy"
      [] name = "Engine.createSwapChain"     -> "Engine::createSwapChain"
      [] name = "Engine.destroySwapChain"    -> "Engine::destroy(SwapChain)"
      [] name = "Engine.createRenderer"      -> "Engine::createRenderer"
      [] name = "Engine.destroyRenderer"     -> "Engine::destroy(Renderer)"
      [] name = "Engine.createView"          -> "Engine::createView"
      [] name = "Engine.destroyView"         -> "Engine::destroy(View)"
      [] name = "Engine.createScene"         -> "Engine::createScene"
      [] name = "Engine.destroyScene"        -> "Engine::destroy(Scene)"
      [] name = "Engine.createCamera"        -> "Engine::createCamera"
      [] name = "Engine.destroyCamera"       -> "Engine::destroy(Camera)"
      [] name = "Engine.destroyEntity"       -> "Engine::destroy(Entity)"
      [] name = "Engine.destroyVertexBuffer" -> "Engine::destroy(VertexBuffer)"
      [] name = "EntityManager.get"          -> "EntityManager::get"
      [] name = "EntityManager.create"       -> "EntityManager::create"
      [] name = "EntityManager.destroy"      -> "EntityManager::destroy"
      [] name = "RenderableManager.Builder"  -> "RenderableManager::Builder::Builder"
      [] name = "VertexBuffer.Builder"       -> "VertexBuffer::Builder::Builder"
      [] name = "IndexBuffer.Builder"        -> "IndexBuffer::Builder::Builder"
      [] name = "RenderableManager$Builder.build" -> "RenderableManager::Builder::build"
      [] name = "VertexBuffer$Builder.build" -> "VertexBuffer::Builder::build"
      [] name = "IndexBuffer$Builder.build"  -> "IndexBuffer::Builder::build"
      [] name \in SetterNames ->
           SetterMethod[CHOOSE n \in DOMAIN SetterName : SetterName[n] = name]
      [] OTHER -> ""

\* Some operation has been issued.
Issued == lastOp.seq > 0

\* ---------------------------------------------------------------- C1
\* C1 as stated: every exported operation hands the engine method of its name
\* exactly the caller's arguments, and hands the caller exactly the engine's
\* result.
C1_ForwardsUnchanged ==
    Issued =>
      /\ lastCall.method = Underlying(lastOp.name)
      /\ lastCall.args = lastOp.args
      /\ lastCall.returns = lastOp.returns
      /\ lastCall.ret = lastOp.result

\* The arguments the engine is to observe for operation op: the caller's, with
\* a wrapper argument replaced by the engine handle the wrapper holds, and with
\* the fixed backend and the fixed native window added.
C1_ExpectedArgs(op) ==
    CASE op.name = "Engine.create"           -> <<OPENGL>>
      [] op.name = "Engine.createSwapChain"  -> <<NULL>>
      [] op.name = "RenderableManager$Builder.build" -> <<wrappers[op.args[1]], op.args[2]>>
      [] op.name \in {"VertexBuffer$Builder.build", "IndexBuffer$Builder.build"} ->
           <<wrappers[op.args[1]]>>
      [] OTHER -> op.args

\* The object the engine method is to be called on for operation op.
C1_ExpectedTarget(op) ==
    IF op.name \in MemberNames THEN wrappers[op.self] ELSE op.self

\* C1 amended: every exported operation calls the engine method of its name, on
\* the engine its wrapper holds (or on the builder or manager it was called on),
\* with the caller's arguments, where a wrapper argument is replaced by the
\* engine handle it holds, Engine.create adds the backend OPENGL and
\* createSwapChain a null native window. The engine's result is handed back
\* unchanged, except that Engine.create hands back a wrapper holding it and the
\* builders' build hands back nothing.
C1_Forwards ==
    Issued =>
      /\ lastCall.method = Underlying(lastOp.name)
      /\ lastCall.args = C1_ExpectedArgs(lastOp)
      /\ lastCall.target = C1_ExpectedTarget(lastOp)
      /\ lastOp.completed =>
           CASE lastOp.name = "Engine.create" ->
                  /\ lastOp.returns
                  /\ lastOp.result \in 1..Len(wrappers)
                  /\ wrappers[lastOp.result] = lastCall.ret
             [] lastOp.name \in BuildNames ->
                  /\ lastCall.returns
                  /\ ~lastOp.returns
             [] OTHER ->
                  /\ lastOp.returns = lastCall.returns
                  /\ lastOp.result = lastCall.ret

\* C1 witness: createSwapChain through a wrapper with a live engine returned
\* the swap chain the engine created, after a null window was passed on.
C1_Witness ==
    /\ lastOp.name = "Engine.createSwapChain"
    /\ lastOp.completed
    /\ lastOp.result # NULL
    /\ lastCall.ret = lastOp.result
    /\ lastCall.target = wrappers[lastOp.self]
    /\ lastCall.target \in engines
    /\ objects["SwapChain"][lastOp.result] = lastCall.target

\* ---------------------------------------------------------------- C2
\* C2 as stated: create/destroy pairs exist for every kind of object, buffers
\* included: every object alive in an engine is one whose handle the caller was
\* handed by some exported operation, so that it can be passed to the exported
\* destroy operation of its kind.
C2_EveryObjectObtainable ==
    \A k \in Kinds : \A x \in ObjectIds :
      objects[k][x] # NULL => <<k, x>> \in held

\* ---------------------------------------------------------------- C3
\* C3 as stated: the layer holds no state of its own, no variable of the layer
\* changes in any operation.
C3_NoLayerState == [][wrappers' = wrappers]_vars

\* C3 amended: the only state of the layer is the heap of Engine wrappers, each
\* holding one engine handle. It changes only in Engine.create, which adds one
\* wrapper holding the handle the engine returned, and in Engine.destroy, which
\* clears the handle of the wrapper it is given; every other exported operation
\* leaves every wrapper as it was.
C3_OnlyCreateDestroy ==
    [][wrappers' # wrappers =>
         \/ /\ lastOp'.name = "Engine.create"
            /\ wrappers' = Append(wrappers, lastCall'.ret)
         \/ /\ lastOp'.name = "Engine.destroy"
            /\ wrappers' = [wrappers EXCEPT ![lastOp'.args[1]] = NULL]]_vars

\* C3 witness: Engine.destroy has cleared the handle of the second of two
\* wrappers, the first still holding its engine.
C3_Witness ==
    /\ lastOp.name = "Engine.destroy"
    /\ lastOp.args = <<2>>
    /\ Len(wrappers) = 2
    /\ wrappers[2] = NULL
    /\ wrappers[1] \in engines

\* ---------------------------------------------------------------- C4
\* C4 as stated: whenever the engine's create call answers nullptr, the exported
\* create operation, Engine.create included, returns nullptr to the caller.
C4_FailureReported ==
    (/\ lastOp.name \in CreateNames \cup {"Engine.create"}
     /\ lastOp.completed
     /\ lastCall.ret = NULL)
    => lastOp.result = NULL

\* ---------------------------------------------------------------- C5
\* C5 as stated: the layer owns no resource, so no wrapper that Engine.create
\* allocated is still allocated after it has been passed to Engine.destroy.
C5_WrapperFreed == \A d \in destroyed : d[2] # NULL => d[1] \notin DOMAIN wrappers

\* ---------------------------------------------------------------- C7
\* The value a builder is to hold for `setting`: the value the host made last,
\* or the builder's default when the host made none.
Chained(made, setting, default) ==
    IF \E s \in made : s[1] = setting
    THEN (CHOOSE s \in made : s[1] = setting)[2]
    ELSE default

\* The settings build() is to see on RenderBuilder b, and on VertexBuilder b.
RenderChained(b) ==
    <<rbuilders[b].count,
      Chained(rmade[b], "boundingBox", RenderBuilder_new(0).boundingBox),
      Chained(rmade[b], "culling", RenderBuilder_new(0).culling),
      Chained(rmade[b], "receiveShadows", RenderBuilder_new(0).receiveShadows),
      Chained(rmade[b], "castShadows", RenderBuilder_new(0).castShadows)>>

VertexChained(b) ==
    <<Chained(vmade[b], "vertexCount", VertexBuilder_new.vertexCount),
      Chained(vmade[b], "bufferCount", VertexBuilder_new.bufferCount)>>

Destroyed == {d[1] : d \in {d \in destroyed : d[2] # NULL}}

\* C8 as stated: once Engine.destroy has destroyed the engine of a wrapper and
\* cleared its handle, no create or destroy member function called on that
\* wrapper, and no build given it, reaches the engine through the cleared
\* handle: whatever call the engine observes goes to a live engine.
C8_NoUseAfterDestroy ==
    /\ (lastOp.name \in MemberNames /\ lastOp.self \in Destroyed)
         => Valid(lastCall.target)
    /\ (lastOp.name \in BuildNames /\ lastOp.args[1] \in Destroyed)
         => Valid(lastCall.args[1])

KindOf(name) ==
    CHOOSE k \in DOMAIN DestroyOps :
      name = DestroyOps[k] \/ (k \in DOMAIN CreateOps /\ name = CreateOps[k])

\* C9: a create or destroy member function of wrapper e changes no wrapper,
\* issues exactly one call, to the engine e holds, and changes at most the one
\* object it is about: an object it creates is owned by e's own engine, and
\* the object it destroys was owned by e's own engine. No engine and no entity
\* changes, and destroyEntity removes at most e's own renderable.
C9_OwnEngineOnly ==
    [][(lastOp'.seq # lastOp.seq /\ lastOp'.name \in MemberNames) =>
         LET e == lastOp'.self
             h == wrappers[e]
         IN /\ wrappers' = wrappers
            /\ nObserved' = nObserved + 1
            /\ lastCall'.target = h
            /\ engines' = engines
            /\ entities' = entities
            /\ IF lastOp'.name = "Engine.destroyEntity"
               THEN /\ objects' = objects
                    /\ renderables' \subseteq renderables
                    /\ renderables \ renderables' \subseteq {<<h, lastOp'.args[1]>>}
               ELSE /\ renderables' = renderables
                    /\ \A k \in Kinds : \A x \in ObjectIds :
                         objects'[k][x] # objects[k][x] =>
                           /\ k = KindOf(lastOp'.name)
                           /\ h # NULL
                           /\ IF lastOp'.name \in CreateNames
                              THEN /\ x = lastOp'.result
                                   /\ objects[k][x] = NULL
                                   /\ objects'[k][x] = h
                              ELSE /\ x = lastOp'.args[1]
                                   /\ objects[k][x] = h
                                   /\ objects'[k][x] = NULL]_vars

\* C9 witness: with two wrappers each holding a live engine, createView on the
\* second created a view owned by the second wrapper's engine.
C9_Witness ==
    /\ Len(wrappers) = 2
    /\ wrappers[1] \in engines
    /\ wrappers[2] \in engines
    /\ lastOp.name = "Engine.createView"
    /\ lastOp.self = 2
    /\ lastOp.result # NULL
    /\ objects["View"][lastOp.result] = wrappers[2]

\* --------------------------------------------------------------- C10
\* C10: Engine.create asks the engine for the OPENGL backend and returns a
\* wrapper no earlier call returned, which holds the handle that very call of
\* the engine answered; a live engine is held by exactly one wrapper and a
\* wrapper holds nothing but a live engine or nullptr; createSwapChain passes
\* the engine a null native window.
C10_NoConfiguration ==
    /\ [](/\ lastOp.name = "Engine.create" => lastCall.args = <<OPENGL>>
          /\ lastOp.name = "Engine.createSwapChain" => lastCall.args = <<NULL>>
          /\ \A w \in DOMAIN wrappers : wrappers[w] # NULL => wrappers[w] \in engines
          /\ \A h \in engines : Cardinality({w \in DOMAIN wrappers : wrappers[w] = h}) = 1)
    /\ [][(lastOp'.seq # lastOp.seq /\ lastOp'.name = "Engine.create") =>
            /\ <<"Engine", lastOp'.result>> \notin held
            /\ lastOp'.result \notin DOMAIN wrappers
            /\ lastOp'.result \in DOMAIN wrappers'
            /\ wrappers'[lastOp'.result] = lastCall'.ret
            /\ \A w \in DOMAIN wrappers : wrappers'[w] = wrappers[w]]_vars

\* C10 witness: a second Engine.create returned a second wrapper holding a
\* second engine, the first wrapper still holding the first.
C10_Witness ==
    /\ lastOp.name = "Engine.create"
    /\ lastOp.result = 2
    /\ lastCall.args = <<OPENGL>>
    /\ lastCall.ret # NULL
    /\ wrappers[2] = lastCall.ret
    /\ wrappers[1] \in engines
    /\ wrappers[1] # wrappers[2]

====
